---- MODULE Spec2Model ----
(***************************************************************************)
(* The coding-session server of code-harvest (package app / server):       *)
(* the RPC handlers FocusGained, OpenFile, SendHeartbeat and EndSession,    *)
(* the heartbeat check CheckHeartbeat, the helpers they share, and the      *)
(* process that Start() runs; and the aggregation of stored sessions by    *)
(* day (package domain: groupByDay, Sessions.Aggregate), with its reduction *)
(* to months.                                                               *)
(*                                                                          *)
(* A Go pointer is a sequence of length at most one: <<>> is nil and <<v>>  *)
(* points to v.  A client id is a sequence of one-character strings, so     *)
(* that len(id) is Len(id).  Times are int64 milliseconds.                  *)
(***************************************************************************)
EXTENDS Integers, Sequences, FiniteSets, TLC

\* ------------------------------------------------------------------ bounds
\* The number of archived intervals (OpenFiles) an open session may hold.
MaxOpenFiles == 1

\* --------------------------------------------------------------- constants
\* var HeartbeatTTL = time.Minute * 10, used as HeartbeatTTL.Milliseconds()
HeartbeatTTL == 600000

VARIABLES
    activeClientId,   \* app.activeClientId
    lastHeartbeat,    \* app.lastHeartbeat
    session,          \* app.session (*models.Session)
    mutex,            \* app.mutex: "free", or the holder between two steps
    now,              \* what app.clock.GetTime() returns
    proc,             \* "running", or "exited" once PrintFatal has ended it
    hb,               \* the CheckHeartbeat call in progress, if any
    last,             \* the operation that acted last, and what it returned
    sessions,         \* the Sessions that Aggregate is called on
    zone,             \* time.Local: its offset from UTC
    aggregatedSessions, \* what Aggregate returned
    aggregatedMonths, \* the day aggregates reduced to months
    pcReport          \* how far the reporting pass is

vars == <<activeClientId, lastHeartbeat, session, mutex, now, proc, hb,
          last, sessions, zone, aggregatedSessions, aggregatedMonths,
          pcReport>>

\* The server, which the reporting pass does not touch.
server == <<activeClientId, lastHeartbeat, session, mutex, now, proc, hb,
            last>>

\* The reporting pass, which the server does not touch.
report == <<sessions, zone, aggregatedSessions, aggregatedMonths, pcReport>>

engine == <<activeClientId, lastHeartbeat, session>>

\* ------------------------------------------------------------------ inputs
NoClient == <<>>
ClientIds == { NoClient, <<"A">>, <<"v", "1">> }

RepoPaths == { "/repo/a.go", "/repo/b.go" }
Paths == RepoPaths \cup { "/tmp/notes" }

OSOf(id) == IF Len(id) = 1 THEN "darwin" ELSE "linux"
EditorOf(id) == IF id = NoClient THEN "vim" ELSE "nvim"

\* shared.Event{Id, OS, Editor, Path}
Events ==
    { [Id |-> c, OS |-> OSOf(c), Editor |-> EditorOf(c), Path |-> p] :
        c \in ClientIds, p \in Paths }

\* ------------------------------------------------------------------- clock
\* The readings of app.clock the model tells apart: the first two
\* milliseconds, and the two around the heartbeat TTL.
Times == { 0, 1, HeartbeatTTL, HeartbeatTTL + 1 }

\* What a later GetTime() of the same handler may return after one that
\* returned t: the same millisecond or the next one.
NextRead(t) == { t } \cup ({ t + 1 } \cap Times)

\* time.Now().UTC().UnixMilli(): the wall clock, which the injected
\* app.clock need not follow (equal to a reading t, or ahead of it).
WallClock(t) == { t, t + 1 }

\* ----------------------------------------------------------------- helpers
\* app.reader.Read(path): the metadata of a path inside a repository, an
\* error for any other path.
Read(path) ==
    IF path \in RepoPaths
    THEN [err |-> FALSE, Filename |-> path, RepositoryName |-> "repo", Filetype |-> "go"]
    ELSE [err |-> TRUE, Filename |-> "", RepositoryName |-> "", Filetype |-> ""]

NoFiles == [p \in {} |-> 0]

ArchiveCurrentFile(s, closedAt) ==
    IF s.CurrentFile # <<>>
    THEN LET f == [s.CurrentFile[1] EXCEPT !.ClosedAt = closedAt]
         IN [s EXCEPT !.CurrentFile = <<f>>, !.OpenFiles = Append(@, f)]
    ELSE s

\* updateCurrentFile with the previous file archived before the metadata is
\* read instead of after.
UpdateCurrentFileArchiveFirst(s, path, openedAt) ==
    LET fileMetadata == Read(path)
        file == [Name |-> fileMetadata.Filename,
                 Repository |-> fileMetadata.RepositoryName,
                 Filetype |-> fileMetadata.Filetype,
                 Path |-> path,
                 OpenedAt |-> openedAt,
                 ClosedAt |-> 0,
                 DurationMs |-> 0]
        a == ArchiveCurrentFile(s, openedAt)
    IN IF fileMetadata.err
       THEN a
       ELSE [a EXCEPT !.CurrentFile = <<file>>]

UpdateCurrentFile(s, path, openedAt) ==
    LET fileMetadata == Read(path)
        file == [Name |-> fileMetadata.Filename,
                 Repository |-> fileMetadata.RepositoryName,
                 Filetype |-> fileMetadata.Filetype,
                 Path |-> path,
                 OpenedAt |-> openedAt,
                 ClosedAt |-> 0,
                 DurationMs |-> 0]
    IN IF fileMetadata.err
       THEN s
       ELSE [ArchiveCurrentFile(s, openedAt) EXCEPT !.CurrentFile = <<file>>]

\* createSession with its two arguments taken in the wrong order.
CreateSessionSwapped(os, editor, startedAt) ==
    [StartedAt |-> startedAt,
     EndedAt |-> 0,
     DurationMs |-> 0,
     OS |-> editor,
     Editor |-> os,
     CurrentFile |-> <<>>,
     OpenFiles |-> <<>>,
     Files |-> NoFiles]

CreateSession(os, editor, startedAt) ==
    [StartedAt |-> startedAt,
     EndedAt |-> 0,
     DurationMs |-> 0,
     OS |-> os,
     Editor |-> editor,
     CurrentFile |-> <<>>,
     OpenFiles |-> <<>>,
     Files |-> NoFiles]

\* The index of the first interval of `path` in files: the File object that
\* session.Files[path] points to.
FirstIndex(files, path) ==
    CHOOSE i \in 1..Len(files) :
        /\ files[i].Path = path
        /\ \A j \in 1..(i - 1) : files[j].Path # path

\* The merge loop with = in place of += for a path seen before.
MergeFileOverwrite(s, i) ==
    LET f == s.OpenFiles[i]
        g == [f EXCEPT !.DurationMs = f.ClosedAt - f.OpenedAt]
    IN IF f.Path \notin DOMAIN s.Files
       THEN [s EXCEPT !.OpenFiles[i] = g, !.Files = (f.Path :> g) @@ @]
       ELSE LET k == FirstIndex(s.OpenFiles, f.Path)
                h == [s.Files[f.Path] EXCEPT
                        !.DurationMs = f.ClosedAt - f.OpenedAt]
            IN [s EXCEPT !.OpenFiles[k] = h, !.Files[f.Path] = h]

\* One iteration of the merge loop of saveSession, for OpenFiles[i].  Files
\* holds pointers into OpenFiles, so the File it updates is updated in
\* OpenFiles as well.
MergeFile(s, i) ==
    LET f == s.OpenFiles[i]
    IN IF f.Path \notin DOMAIN s.Files
       THEN LET g == [f EXCEPT !.DurationMs = f.ClosedAt - f.OpenedAt]
            IN [s EXCEPT !.OpenFiles[i] = g, !.Files = (f.Path :> g) @@ @]
       ELSE LET k == FirstIndex(s.OpenFiles, f.Path)
                g == [s.Files[f.Path] EXCEPT
                        !.DurationMs = @ + (f.ClosedAt - f.OpenedAt)]
            IN [s EXCEPT !.OpenFiles[k] = g, !.Files[f.Path] = g]

RECURSIVE MergeFrom(_, _)
MergeFrom(s, i) ==
    IF i > Len(s.OpenFiles) THEN s ELSE MergeFrom(MergeFile(s, i), i + 1)

\* saveSession without its test of Files.
HasNoFilesUnchecked(s) == FALSE

\* len(app.session.Files) < 1
HasNoFiles(s) == Cardinality(DOMAIN s.Files) < 1

\* The close of saveSession without archiveCurrentFile(endedAt).
CloseSessionLeavesCurrentFile(s, endedAt) ==
    MergeFrom([s EXCEPT !.EndedAt = endedAt,
                        !.DurationMs = endedAt - s.StartedAt], 1)

\* saveSession between its nil check and its test of Files: the session
\* with its current file archived, its end and duration set, and OpenFiles
\* merged into Files.  CurrentFile points to the last archived File.
CloseSession(s, endedAt) ==
    LET a == ArchiveCurrentFile(s, endedAt)
        b == [a EXCEPT !.EndedAt = endedAt,
                       !.DurationMs = endedAt - a.StartedAt]
        m == MergeFrom(b, 1)
    IN IF m.CurrentFile # <<>>
       THEN [m EXCEPT !.CurrentFile = <<m.OpenFiles[Len(m.OpenFiles)]>>]
       ELSE m

\* saveSession with the reset at the end of the function instead of in a
\* defer: the early return for no files and a failed Save skip it.
SaveSessionResetAtEnd(active, s, endedAt, saveErr) ==
    IF s = <<>>
    THEN [activeClientId |-> active, session |-> s, arg |-> <<>>,
          log |-> "no session"]
    ELSE LET c == CloseSession(s[1], endedAt)
         IN IF HasNoFiles(c)
            THEN [activeClientId |-> active, session |-> <<c>>, arg |-> <<>>,
                  log |-> "no files"]
            ELSE IF saveErr
            THEN [activeClientId |-> active, session |-> <<c>>, arg |-> <<c>>,
                  log |-> "save error"]
            ELSE [activeClientId |-> NoClient, session |-> <<>>, arg |-> <<c>>,
                  log |-> "saved"]

\* saveSession: what it leaves in app.activeClientId and app.session, the
\* session it hands to storage.Save (arg, nil when Save is not called) and
\* what it logs.  saveErr is whether Save returns an error.
SaveSession(active, s, endedAt, saveErr) ==
    IF s = <<>>
    THEN [activeClientId |-> NoClient, session |-> <<>>, arg |-> <<>>,
          log |-> "no session"]
    ELSE LET c == CloseSession(s[1], endedAt)
         IN IF HasNoFiles(c)
            THEN [activeClientId |-> NoClient, session |-> <<>>, arg |-> <<>>,
                  log |-> "no files"]
            ELSE [activeClientId |-> NoClient, session |-> <<>>, arg |-> <<c>>,
                  log |-> IF saveErr THEN "save error" ELSE "saved"]

\* FocusGained without its early return for the active client.
IsActiveClientUnchecked(active, id) == FALSE

\* app.activeClientId == event.Id
IsActiveClient(active, id) == active = id

\* The test of EndSession without its condition on the length.
OrderingViolationAnyMismatch(active, id) == active # id

\* The test of EndSession that ends the process.
OrderingViolation(active, id) == Len(active) > 1 /\ active # id

\* The test of EndSession that returns early.
AlreadyEnded(active, s) == active = NoClient /\ s = <<>>

\* The staleness test with <= in place of <.
StaleInclusive(lastHb, t) == lastHb + HeartbeatTTL <= t

\* The staleness test of CheckHeartbeat.
Stale(lastHb, t) == lastHb + HeartbeatTTL < t

\* ------------------------------------------------------------ bookkeeping
\* What an operation leaves in `last`: its name, the reply and the error it
\* returned, what it logged, and the session it handed to storage.Save
\* (nil when it did not call Save).
Did(op, reply, log, arg) ==
    [op |-> op, reply |-> reply, err |-> "nil", log |-> log, arg |-> arg]

\* Whether updateCurrentFile(path) on s stays within the model's bounds.
RoomToOpen(s, path) ==
    Read(path).err \/ s.CurrentFile = <<>> \/ Len(s.OpenFiles) < MaxOpenFiles

\* The results storage.Save can return (TRUE: an error) when saveSession is
\* called on s at endedAt; Save is not called for no session or no files.
SaveResults(s, endedAt) ==
    IF s # <<>> /\ ~HasNoFiles(CloseSession(s[1], endedAt))
    THEN BOOLEAN
    ELSE { FALSE }

\* A handler that does not wait for the mutex.
CanServeUnlocked == proc = "running"

\* app.mutex.Lock() of a handler: the handler runs when the mutex is free.
CanServe == proc = "running" /\ mutex = "free"

\* -------------------------------------------------------------------- Init
New ==
    /\ activeClientId = NoClient
    /\ lastHeartbeat = 0
    /\ session = <<>>
    /\ mutex = "free"
    /\ now = 0
    /\ proc = "running"
    /\ hb = [pc |-> "idle"]
    /\ last = Did("New", "", "", <<>>)

\* No reporting pass runs.
NoReport ==
    /\ sessions = <<>>
    /\ zone = 0
    /\ aggregatedSessions = <<>>
    /\ aggregatedMonths = <<>>
    /\ pcReport = "off"

Init == New /\ NoReport

\* ----------------------------------------------------------------- actions
\* The handlers below say what a handler does under the lock; Next says what
\* a CheckHeartbeat call does meanwhile.
\* Time passes: the clock advances to a later reading.
Tick ==
    /\ proc = "running"
    /\ \E t \in Times :
        /\ t > now
        /\ now' = t
    /\ last' = Did("Tick", "", "", <<>>)
    /\ UNCHANGED <<engine, mutex, proc, hb>>
    /\ UNCHANGED report

FocusGained(e) ==
    /\ CanServe
    /\ lastHeartbeat' = now
    /\ IF IsActiveClient(activeClientId, e.Id)
       THEN /\ last' = Did("FocusGained", "", "", <<>>)
            /\ UNCHANGED <<activeClientId, session, now>>
       ELSE /\ activeClientId' = e.Id
            /\ \E t2 \in NextRead(now) :
               \E t3 \in NextRead(t2) :
                /\ now' = t3
                /\ \E w \in WallClock(t2) :
                     session' = <<UpdateCurrentFile(
                                    CreateSession(e.OS, e.Editor, w),
                                    e.Path, t3)>>
                /\ \E saveErr \in SaveResults(session, t2) :
                     LET r == IF session # <<>>
                              THEN SaveSession(activeClientId, session, t2, saveErr)
                              ELSE [arg |-> <<>>, log |-> ""]
                     IN last' = Did("FocusGained",
                                    "Successfully updated the client being focused.",
                                    r.log, r.arg)
    /\ UNCHANGED <<mutex, proc>>
    /\ UNCHANGED report

\* OpenFile with the active client set outside the test for a session.
OpenFileTakesOver(e) ==
    /\ CanServe
    /\ lastHeartbeat' = now
    /\ activeClientId' = e.Id
    /\ \E t2 \in NextRead(now) :
        /\ IF session = <<>>
           THEN \E w \in WallClock(now) :
                    session' = <<UpdateCurrentFile(
                                   CreateSession(e.OS, e.Editor, w),
                                   e.Path, t2)>>
           ELSE /\ RoomToOpen(session[1], e.Path)
                /\ session' = <<UpdateCurrentFile(session[1], e.Path, t2)>>
        /\ now' = t2
    /\ last' = Did("OpenFile", "Successfully updated the current file.", "", <<>>)
    /\ UNCHANGED <<mutex, proc>>
    /\ UNCHANGED report

OpenFile(e) ==
    /\ CanServe
    /\ lastHeartbeat' = now
    /\ \E t2 \in NextRead(now) :
        /\ IF session = <<>>
           THEN \E w \in WallClock(now) :
                    /\ activeClientId' = e.Id
                    /\ session' = <<UpdateCurrentFile(
                                      CreateSession(e.OS, e.Editor, w),
                                      e.Path, t2)>>
           ELSE /\ RoomToOpen(session[1], e.Path)
                /\ session' = <<UpdateCurrentFile(session[1], e.Path, t2)>>
                /\ UNCHANGED activeClientId
        /\ now' = t2
    /\ last' = Did("OpenFile", "Successfully updated the current file.", "", <<>>)
    /\ UNCHANGED <<mutex, proc>>
    /\ UNCHANGED report

\* SendHeartbeat without the branch that opens a session.
SendHeartbeatOnlyTouches(e) ==
    /\ CanServe
    /\ lastHeartbeat' = now
    /\ last' = Did("SendHeartbeat", "Successfully sent heartbeat", "", <<>>)
    /\ UNCHANGED <<activeClientId, session, now, mutex, proc>>
    /\ UNCHANGED report

SendHeartbeat(e) ==
    /\ CanServe
    /\ IF session = <<>>
       THEN \E w \in WallClock(now), t2 \in NextRead(now) :
                /\ activeClientId' = e.Id
                /\ session' = <<UpdateCurrentFile(
                                  CreateSession(e.OS, e.Editor, w),
                                  e.Path, now)>>
                /\ lastHeartbeat' = t2
                /\ now' = t2
       ELSE /\ lastHeartbeat' = now
            /\ UNCHANGED <<activeClientId, session, now>>
    /\ last' = Did("SendHeartbeat", "Successfully sent heartbeat", "", <<>>)
    /\ UNCHANGED <<mutex, proc>>
    /\ UNCHANGED report

EndSession(e) ==
    /\ CanServe
    /\ IF OrderingViolation(activeClientId, e.Id)
       THEN \* PrintFatal ends the process
            /\ proc' = "exited"
            /\ last' = Did("EndSession", "", "fatal", <<>>)
            /\ UNCHANGED engine
       ELSE IF AlreadyEnded(activeClientId, session)
       THEN /\ last' = Did("EndSession", "", "", <<>>)
            /\ UNCHANGED <<engine, proc>>
       ELSE \E saveErr \in SaveResults(session, now) :
            LET r == SaveSession(activeClientId, session, now, saveErr)
            IN /\ activeClientId' = r.activeClientId
               /\ session' = r.session
               /\ last' = Did("EndSession",
                              "The session was ended successfully.", r.log, r.arg)
               /\ UNCHANGED <<lastHeartbeat, proc>>
    /\ UNCHANGED <<mutex, now>>
    /\ UNCHANGED report

\* No CheckHeartbeat call reads the engine while the handler runs.
Quiet == UNCHANGED hb

\* CheckHeartbeat evaluates its condition without the lock, so its reads race
\* with the writes of a handler that runs meanwhile.  Reads that see the
\* handler's writes all or not at all are CheckHeartbeatTest after or before
\* the handler.  This is the other outcome that lets the call go on: the
\* handler opens a session in the idle engine, and the call reads the new
\* app.session and the old app.lastHeartbeat.
RacyTest ==
    /\ hb.pc = "idle"
    /\ session = <<>>
    /\ session' # <<>>
    /\ Stale(lastHeartbeat, now)
    /\ hb' = [pc |-> "lock"]

\* CheckHeartbeat evaluates its condition on app.session, app.lastHeartbeat
\* and the clock before it takes the lock.
CheckHeartbeatTest ==
    /\ proc = "running"
    /\ hb.pc = "idle"
    /\ IF session # <<>> /\ Stale(lastHeartbeat, now)
       THEN /\ hb' = [pc |-> "lock"]
            /\ last' = Did("CheckHeartbeatTest", "", "", <<>>)
       ELSE /\ hb' = [pc |-> "idle"]
            /\ last' = Did("CheckHeartbeat", "", "", <<>>)
    /\ UNCHANGED <<engine, mutex, now, proc>>
    /\ UNCHANGED report

\* app.mutex.Lock()
CheckHeartbeatLock ==
    /\ proc = "running"
    /\ hb.pc = "lock"
    /\ mutex = "free"
    /\ mutex' = "CheckHeartbeat"
    /\ hb' = [pc |-> "save"]
    /\ last' = Did("CheckHeartbeatLock", "", "", <<>>)
    /\ UNCHANGED <<engine, now, proc>>
    /\ UNCHANGED report

\* app.saveSession() and the deferred app.mutex.Unlock()
CheckHeartbeatSave ==
    /\ proc = "running"
    /\ hb.pc = "save"
    /\ \E saveErr \in SaveResults(session, now) :
        LET r == SaveSession(activeClientId, session, now, saveErr)
        IN /\ activeClientId' = r.activeClientId
           /\ session' = r.session
           /\ last' = Did("CheckHeartbeat", "", r.log, r.arg)
    /\ mutex' = "free"
    /\ hb' = [pc |-> "idle"]
    /\ UNCHANGED <<lastHeartbeat, now, proc>>
    /\ UNCHANGED report

Next ==
    \/ Tick
    \/ \E e \in Events : FocusGained(e) /\ Quiet
    \/ \E e \in Events : OpenFile(e) /\ Quiet
    \/ \E e \in Events : SendHeartbeat(e) /\ Quiet
    \/ \E e \in Events : EndSession(e) /\ Quiet
    \/ \E e \in Events : FocusGained(e) /\ RacyTest
    \/ \E e \in Events : OpenFile(e) /\ RacyTest
    \/ \E e \in Events : SendHeartbeat(e) /\ RacyTest
    \/ CheckHeartbeatTest
    \/ CheckHeartbeatLock
    \/ CheckHeartbeatSave

Spec == Init /\ [][Next]_vars

\* ------------------------------------------------------ the process of Start
\* Start() calls startServer, which returns only when http.Serve does, and
\* http.Serve returns only with an error: Start then calls PrintFatal, which
\* ends the process.  The select loop that calls CheckHeartbeat on every tick
\* of the ecg ticker comes after that call, so while the process serves events
\* nothing calls CheckHeartbeat.
ServeFails ==
    /\ proc = "running"
    /\ proc' = "exited"
    /\ last' = Did("Start", "", "fatal", <<>>)
    /\ UNCHANGED <<engine, mutex, now, hb>>
    /\ UNCHANGED report

NextStart ==
    \/ Tick
    \/ \E e \in Events : FocusGained(e) /\ Quiet
    \/ \E e \in Events : OpenFile(e) /\ Quiet
    \/ \E e \in Events : SendHeartbeat(e) /\ Quiet
    \/ \E e \in Events : EndSession(e) /\ Quiet
    \/ ServeFails

\* Time passes whatever the process does.  The last reading of Times stands
\* for every later one: no handler or timer step is pending there, so a
\* behaviour that rests at it is the process serving with no event arriving.
StartSpec == Init /\ [][NextStart]_vars /\ WF_vars(Tick)

\* ------------------------------------------------------------ aggregation
\* The longest list of Sessions handed to Aggregate.
MaxSessions == 2

\* The length of a day.  The reporting pass counts time in seconds, a
\* thousandth of the code's milliseconds: the integers of the model end
\* before the milliseconds of the 25th day of 1970.
DayLength == 86400

\* truncate.Day: the UTC midnight at or before a timestamp.
TruncateDay(t) == t - (t % DayLength)

\* The days from 1970-01-01 to the first of each of the months that follow.
MonthStartDays == <<0, 31, 59, 90>>

\* The first of the month, 00:00 UTC, at or before a timestamp.
TruncateMonth(t) ==
    LET d == t \div DayLength
        k == CHOOSE j \in 1..Len(MonthStartDays) :
                /\ MonthStartDays[j] <= d
                /\ j < Len(MonthStartDays) => d < MonthStartDays[j + 1]
    IN MonthStartDays[k] * DayLength

\* Sessions as the Store holds them: started on 1970-01-01, in its last
\* unit of time, on 1970-01-02 or on 1970-02-01, lasting one unit or a
\* day, with one file or with two files of two repositories.
SessionInputs ==
    [StartedAt : { 0, DayLength - 1, DayLength, 31 * DayLength },
     DurationMs : { 1, DayLength },
     Files : { ("/repo/a.go" :> [Repository |-> "pulse", DurationMs |-> 1]),
               ("/repo/a.go" :> [Repository |-> "pulse", DurationMs |-> 1])
                 @@ ("/conf/b.go" :> [Repository |-> "dotfiles", DurationMs |-> 2]) }]

SessionLists == UNION { [1..n -> SessionInputs] : n \in 0..MaxSessions }

\* time.Local: UTC, or an hour behind it.
Zones == { 0, 0 - (DayLength \div 24) }

\* The orders in which a range over a map can visit the keys S.
Orders(S) ==
    { o \in [1..Cardinality(S) -> S] :
        \A i, j \in 1..Cardinality(S) : o[i] = o[j] => i = j }

\* The loop of groupByDay with = in place of append.
RECURSIVE GroupFromOverwrite(_, _, _)
GroupFromOverwrite(buckets, ss, i) ==
    IF i > Len(ss)
    THEN buckets
    ELSE LET d == TruncateDay(ss[i].StartedAt)
         IN GroupFromOverwrite(
              IF d \in DOMAIN buckets
              THEN [buckets EXCEPT ![d] = <<ss[i]>>]
              ELSE (d :> <<ss[i]>>) @@ buckets,
              ss, i + 1)

\* The loop of groupByDay from session i on.
RECURSIVE GroupFrom(_, _, _)
GroupFrom(buckets, ss, i) ==
    IF i > Len(ss)
    THEN buckets
    ELSE LET d == TruncateDay(ss[i].StartedAt)
         IN GroupFrom(
              IF d \in DOMAIN buckets
              THEN [buckets EXCEPT ![d] = Append(@, ss[i])]
              ELSE (d :> <<ss[i]>>) @@ buckets,
              ss, i + 1)

groupByDay(ss) == GroupFrom([d \in {} |-> <<>>], ss, 1)

\* The inner loop of Aggregate with = in place of +=.
RECURSIVE TotalTimeLast(_, _)
TotalTimeLast(tempSessions, i) ==
    IF i > Len(tempSessions)
    THEN 0
    ELSE IF i = Len(tempSessions)
    THEN tempSessions[i].DurationMs
    ELSE TotalTimeLast(tempSessions, i + 1)

\* The inner loop of Aggregate: totalTime over tempSessions from i on.
RECURSIVE TotalTime(_, _)
TotalTime(tempSessions, i) ==
    IF i > Len(tempSessions)
    THEN 0
    ELSE tempSessions[i].DurationMs + TotalTime(tempSessions, i + 1)

\* The time in repository r of the files ps of a session.
RECURSIVE RepositoryTimeOfFiles(_, _, _)
RepositoryTimeOfFiles(files, ps, r) ==
    IF ps = {}
    THEN 0
    ELSE LET p == CHOOSE q \in ps : TRUE
         IN (IF files[p].Repository = r THEN files[p].DurationMs ELSE 0)
              + RepositoryTimeOfFiles(files, ps \ { p }, r)

\* The time in repository r of the sessions from i on.
RECURSIVE RepositoryTime(_, _, _)
RepositoryTime(ss, i, r) ==
    IF i > Len(ss)
    THEN 0
    ELSE RepositoryTimeOfFiles(ss[i].Files, DOMAIN ss[i].Files, r)
           + RepositoryTime(ss, i + 1, r)

\* sessionRepositories: for each repository of the files of the sessions,
\* the sum of the DurationMs of its files.
sessionRepositories(ss) ==
    LET repos == UNION { { ss[i].Files[p].Repository : p \in DOMAIN ss[i].Files } :
                         i \in 1..Len(ss) }
    IN [r \in repos |-> RepositoryTime(ss, 1, r)]

\* time.Unix(0, date*int64(time.Millisecond)).Format(yymmdd): the calendar
\* date of the timestamp in time.Local, named here by its number of days
\* from 1970-01-01.
DateString(date, z) == (date + z) \div DayLength

\* totalTime declared before the loop over the days instead of inside it:
\* the total of the days visited so far.
RECURSIVE RunningTotal(_, _, _)
RunningTotal(buckets, order, i) ==
    IF i < 1
    THEN 0
    ELSE TotalTime(buckets[order[i]], 1) + RunningTotal(buckets, order, i - 1)

\* Aggregate with totalTime declared before the loop over the days.
AggregateRunningTotal(ss, order, z) ==
    LET sessionsPerDay == groupByDay(ss)
    IN [i \in 1..Len(order) |->
          [Period |-> "Day",
           Date |-> order[i],
           DateString |-> DateString(order[i], z),
           TotalTimeMs |-> RunningTotal(sessionsPerDay, order, i),
           Repositories |-> sessionRepositories(sessionsPerDay[order[i]])]]

\* Sessions.Aggregate on ss when the range over sessionsPerDay visits the
\* days in `order` and time.Local is z.
Aggregate(ss, order, z) ==
    LET sessionsPerDay == groupByDay(ss)
    IN [i \in 1..Len(order) |->
          LET date == order[i]
              tempSessions == sessionsPerDay[date]
          IN [Period |-> "Day",
              Date |-> date,
              DateString |-> DateString(date, z),
              TotalTimeMs |-> TotalTime(tempSessions, 1),
              Repositories |-> sessionRepositories(tempSessions)]]

\* The TotalTimeMs of the day aggregates of month m, from i on.
RECURSIVE MonthTotalTime(_, _, _)
MonthTotalTime(days, i, m) ==
    IF i > Len(days)
    THEN 0
    ELSE (IF TruncateMonth(days[i].Date) = m THEN days[i].TotalTimeMs ELSE 0)
           + MonthTotalTime(days, i + 1, m)

\* The time in repository r of the day aggregates of month m, from i on.
RECURSIVE MonthRepositoryTime(_, _, _, _)
MonthRepositoryTime(days, i, m, r) ==
    IF i > Len(days)
    THEN 0
    ELSE (IF TruncateMonth(days[i].Date) = m /\ r \in DOMAIN days[i].Repositories
          THEN days[i].Repositories[r]
          ELSE 0) + MonthRepositoryTime(days, i + 1, m, r)

\* The months of a list of day aggregates.
MonthsOf(days) == { TruncateMonth(days[i].Date) : i \in 1..Len(days) }

\* aggregateHigher(Month, days): one aggregate for each month of the day
\* aggregates, in `order`, with their TotalTimeMs summed and their
\* Repositories merged by summing matching keys.
AggregateHigher(days, order, z) ==
    [i \in 1..Len(order) |->
       LET m == order[i]
           repos == UNION { DOMAIN days[k].Repositories :
                            k \in { j \in 1..Len(days) :
                                      TruncateMonth(days[j].Date) = m } }
       IN [Period |-> "Month",
           Date |-> m,
           DateString |-> DateString(m, z),
           TotalTimeMs |-> MonthTotalTime(days, 1, m),
           Repositories |-> [r \in repos |-> MonthRepositoryTime(days, 1, m, r)]]]

\* A reporting pass starts on a list of stored Sessions.
InitReport ==
    /\ New
    /\ sessions \in SessionLists
    /\ zone \in Zones
    /\ aggregatedSessions = <<>>
    /\ aggregatedMonths = <<>>
    /\ pcReport = "sessions"

\* sessions.Aggregate()
CallAggregate ==
    /\ pcReport = "sessions"
    /\ \E order \in Orders(DOMAIN groupByDay(sessions)) :
         aggregatedSessions' = Aggregate(sessions, order, zone)
    /\ pcReport' = "day"
    /\ UNCHANGED <<server, sessions, zone, aggregatedMonths>>

\* aggregateHigher(Month, aggregatedSessions)
CallAggregateHigher ==
    /\ pcReport = "day"
    /\ \E order \in Orders(MonthsOf(aggregatedSessions)) :
         aggregatedMonths' = AggregateHigher(aggregatedSessions, order, zone)
    /\ pcReport' = "month"
    /\ UNCHANGED <<server, sessions, zone, aggregatedSessions>>

NextReport ==
    \/ CallAggregate
    \/ CallAggregateHigher

ReportSpec == InitReport /\ [][NextReport]_vars

\* ------------------------------------------------------------------ claims
\* The open intervals of a list of Files: path, openedAt, closedAt.
Intervals(files) ==
    [i \in 1..Len(files) |->
        <<files[i].Path, files[i].OpenedAt, files[i].ClosedAt>>]

\* The sum of closedAt - openedAt over the intervals of `path` from index i.
RECURSIVE SumIntervals(_, _, _)
SumIntervals(files, path, i) ==
    IF i > Len(files)
    THEN 0
    ELSE (IF files[i].Path = path
          THEN files[i].ClosedAt - files[i].OpenedAt
          ELSE 0) + SumIntervals(files, path, i + 1)

\* Whether session pointer s has a resolved file: a current or an archived one.
HasResolvedFile(s) ==
    s # <<>> /\ (s[1].CurrentFile # <<>> \/ Len(s[1].OpenFiles) > 0)

\* C1: whenever an operation hands a session to the Store, the session's
\* archived intervals are those the engine held plus the interval of the
\* current file closed at the end of the session, Files has exactly the paths
\* of those intervals, and Files[path].DurationMs is the sum of
\* closedAt - openedAt over the intervals of that path.
C1_MergedDurationIsSumOfIntervals ==
    [][ last'.arg # <<>> =>
          /\ session # <<>>
          /\ LET a == last'.arg[1]
                 pre == session[1]
             IN /\ Intervals(a.OpenFiles) =
                     Intervals(pre.OpenFiles) \o
                       (IF pre.CurrentFile # <<>>
                        THEN << <<pre.CurrentFile[1].Path,
                                  pre.CurrentFile[1].OpenedAt,
                                  a.EndedAt>> >>
                        ELSE <<>>)
                /\ DOMAIN a.Files =
                     { a.OpenFiles[i].Path : i \in 1..Len(a.OpenFiles) }
                /\ \A p \in DOMAIN a.Files :
                     a.Files[p].DurationMs = SumIntervals(a.OpenFiles, p, 1)
      ]_vars

\* A session was handed to the Store in which one path has two intervals of
\* positive length.
C1_Witness ==
    /\ last.arg # <<>>
    /\ LET a == last.arg[1]
       IN \E i, j \in 1..Len(a.OpenFiles) :
            /\ i < j
            /\ a.OpenFiles[i].Path = a.OpenFiles[j].Path
            /\ a.OpenFiles[i].ClosedAt > a.OpenFiles[i].OpenedAt
            /\ a.OpenFiles[j].ClosedAt > a.OpenFiles[j].OpenedAt
            /\ a.Files[a.OpenFiles[i].Path].DurationMs =
                 (a.OpenFiles[i].ClosedAt - a.OpenFiles[i].OpenedAt)
                   + (a.OpenFiles[j].ClosedAt - a.OpenFiles[j].OpenedAt)

\* C2: FocusGained with the id of the active client leaves the session, the
\* active client and the clock as they are, does not call the Store, and
\* sets lastHeartbeat to the time of the call.
C2_FocusGainedSameClientIsNoOp ==
    [][ \A e \in Events :
          (last'.op = "FocusGained" /\ e.Id = activeClientId /\ FocusGained(e)) =>
             /\ session' = session
             /\ activeClientId' = activeClientId
             /\ last'.arg = <<>>
             /\ lastHeartbeat' = now
             /\ now' = now
      ]_vars

\* FocusGained has returned early on an open session with a current file,
\* after the time of the last heartbeat moved.
C2_Witness ==
    /\ last.op = "FocusGained"
    /\ last.reply = ""
    /\ session # <<>>
    /\ session[1].CurrentFile # <<>>
    /\ session[1].CurrentFile[1].OpenedAt < now
    /\ lastHeartbeat = now

\* C3: an operation hands a session to the Store only if the session it
\* closes has a resolved file, and the session handed over has a file in
\* Files.
C3_NoFilesNeverSaved ==
    [][ last'.arg # <<>> =>
          /\ HasResolvedFile(session)
          /\ DOMAIN last'.arg[1].Files # {}
      ]_vars

\* EndSession has closed a session without files and has not called the
\* Store.
C3_Witness ==
    /\ last.op = "EndSession"
    /\ last.log = "no files"
    /\ last.arg = <<>>
    /\ session = <<>>

\* C4: the test of CheckHeartbeat goes on to close the session exactly when
\* a session is open and now - lastHeartbeat > TTL, the values being those
\* the call reads; otherwise the call ends there with the engine unchanged
\* and the Store not called.  No call goes on without having read a session
\* and a lastHeartbeat older than the TTL, and the call that goes on leaves
\* no session.
C4_CheckHeartbeatClosesIffStale ==
    [][ /\ CheckHeartbeatTest =>
             IF session # <<>> /\ now - lastHeartbeat > HeartbeatTTL
             THEN hb'.pc = "lock"
             ELSE /\ hb'.pc = "idle"
                  /\ UNCHANGED engine
                  /\ last'.arg = <<>>
        /\ (hb.pc = "idle" /\ hb'.pc # "idle") =>
             /\ session # <<>> \/ session' # <<>>
             /\ now - lastHeartbeat > HeartbeatTTL
        /\ (last'.op = "CheckHeartbeat" /\ hb.pc = "save") =>
             /\ session' = <<>>
             /\ activeClientId' = NoClient
      ]_vars

\* CheckHeartbeat has returned with the session open at exactly the TTL.
C4_Witness ==
    /\ last.op = "CheckHeartbeat"
    /\ session # <<>>
    /\ now - lastHeartbeat = HeartbeatTTL
    /\ hb.pc = "idle"

\* C5: EndSession from a client other than a non-empty active client ends
\* the process with a fatal error and changes neither the engine nor the
\* Store.
C5_EndSessionFromOtherClientIsFatal ==
    [][ \A e \in Events :
          (/\ last'.op = "EndSession"
           /\ activeClientId # NoClient
           /\ e.Id # activeClientId
           /\ EndSession(e)) =>
             /\ proc' = "exited"
             /\ UNCHANGED engine
             /\ last'.arg = <<>>
      ]_vars

\* C6: a session that CheckHeartbeat closes has now - lastHeartbeat > TTL at
\* the moment it is closed.
C6_ClosedByCheckHeartbeatIsStale ==
    [][ (last'.op = "CheckHeartbeat" /\ hb.pc = "save" /\ session # <<>>) =>
          now - lastHeartbeat > HeartbeatTTL
      ]_vars

\* C7: in the process that Start() runs, a session whose last heartbeat is
\* older than the TTL is eventually closed, unless an event renews it or the
\* process ends.
C7_StaleSessionEventuallyClosed ==
    (session # <<>> /\ now - lastHeartbeat > HeartbeatTTL)
      ~> (session = <<>> \/ now - lastHeartbeat <= HeartbeatTTL \/ proc = "exited")

\* C8: every operation that closes a session returns no error and leaves
\* the engine without it, whether the Store was called, failed or not:
\* EndSession and CheckHeartbeat leave no session and no active client,
\* FocusGained leaves a session that is not ended and holds no archived or
\* merged file.
C8_ClosedSessionIsDropped ==
    [][ /\ (last'.op = "EndSession" /\ proc' = "running") =>
             /\ session' = <<>>
             /\ activeClientId' = NoClient
             /\ last'.err = "nil"
        /\ (last'.op = "CheckHeartbeat" /\ hb.pc = "save") =>
             /\ session' = <<>>
             /\ activeClientId' = NoClient
        /\ (last'.op = "FocusGained" /\ last'.reply # "" /\ session # <<>>) =>
             /\ session' # <<>>
             /\ session'[1].EndedAt = 0
             /\ session'[1].OpenFiles = <<>>
             /\ session'[1].Files = NoFiles
             /\ last'.err = "nil"
      ]_vars

\* EndSession has handed a session to a Store that failed, and the engine
\* is idle.
C8_Witness ==
    /\ last.op = "EndSession"
    /\ last.log = "save error"
    /\ last.arg # <<>>
    /\ last.err = "nil"
    /\ session = <<>>
    /\ activeClientId = NoClient

\* C9: EndSession with no active client and no session changes nothing,
\* does not call the Store and does not end the process, whatever the id of
\* the event.
C9_EndSessionWhenIdleIsNoOp ==
    [][ \A e \in Events :
          (/\ last'.op = "EndSession"
           /\ activeClientId = NoClient
           /\ session = <<>>
           /\ EndSession(e)) =>
             /\ UNCHANGED engine
             /\ last'.arg = <<>>
             /\ proc' = "running"
      ]_vars

\* EndSession has returned early in the idle engine, after the time of the
\* last heartbeat has passed the TTL.
C9_Witness ==
    /\ last.op = "EndSession"
    /\ last.reply = ""
    /\ last.log = ""
    /\ proc = "running"
    /\ session = <<>>
    /\ activeClientId = NoClient
    /\ now - lastHeartbeat > HeartbeatTTL

\* C10: FocusGained from another client on an open session hands the old
\* session to the Store if and only if it has a resolved file, ended at a
\* time of the call with its current file archived at that time; the engine
\* is left with a session of the event's client, os and editor that holds no
\* archived or merged file and whose current file is the event's path opened
\* at the end of the call, not before the old session ended, or no current
\* file if the path does not resolve.
C10_FocusGainedReplacesSession ==
    [][ \A e \in Events :
          (/\ last'.op = "FocusGained"
           /\ session # <<>>
           /\ e.Id # activeClientId
           /\ FocusGained(e)) =>
             LET old == session[1]
                 new == session'[1]
             IN /\ (last'.arg # <<>>) = HasResolvedFile(session)
                /\ last'.arg # <<>> =>
                     LET a == last'.arg[1]
                     IN /\ a.StartedAt = old.StartedAt
                        /\ a.OS = old.OS
                        /\ a.Editor = old.Editor
                        /\ a.EndedAt >= now
                        /\ a.EndedAt <= now'
                        /\ old.CurrentFile # <<>> =>
                             /\ a.OpenFiles[Len(a.OpenFiles)].Path =
                                  old.CurrentFile[1].Path
                             /\ a.OpenFiles[Len(a.OpenFiles)].ClosedAt = a.EndedAt
                /\ activeClientId' = e.Id
                /\ new.OS = e.OS
                /\ new.Editor = e.Editor
                /\ new.OpenFiles = <<>>
                /\ new.Files = NoFiles
                /\ IF e.Path \in RepoPaths
                   THEN /\ new.CurrentFile # <<>>
                        /\ new.CurrentFile[1].Path = e.Path
                        /\ new.CurrentFile[1].OpenedAt = now'
                        /\ new.CurrentFile[1].ClosedAt = 0
                   ELSE new.CurrentFile = <<>>
      ]_vars

\* FocusGained has handed the session of another client to the Store and
\* left a session with a current file.
C10_Witness ==
    /\ last.op = "FocusGained"
    /\ last.arg # <<>>
    /\ session # <<>>
    /\ session[1].CurrentFile # <<>>
    /\ session[1].OS # last.arg[1].OS
    /\ activeClientId # NoClient

\* C11: OpenFile or SendHeartbeat in the idle engine opens a session of the
\* event's client, os and editor with nothing archived, whose current file is
\* the event's path opened at a clock reading of the call if the path
\* resolves and absent if not, sets lastHeartbeat to a clock reading of the
\* call and does not call the Store; SendHeartbeat on an open session changes
\* only lastHeartbeat, to the time of the call.
C11_IdleEventOpensSession ==
    [][ \A e \in Events :
          LET Opened ==
                /\ session' # <<>>
                /\ activeClientId' = e.Id
                /\ session'[1].OS = e.OS
                /\ session'[1].Editor = e.Editor
                /\ session'[1].EndedAt = 0
                /\ session'[1].OpenFiles = <<>>
                /\ session'[1].Files = NoFiles
                /\ IF e.Path \in RepoPaths
                   THEN /\ session'[1].CurrentFile # <<>>
                        /\ session'[1].CurrentFile[1].Path = e.Path
                        /\ session'[1].CurrentFile[1].OpenedAt >= now
                        /\ session'[1].CurrentFile[1].OpenedAt <= now'
                        /\ session'[1].CurrentFile[1].ClosedAt = 0
                   ELSE session'[1].CurrentFile = <<>>
                /\ lastHeartbeat' >= now
                /\ lastHeartbeat' <= now'
                /\ last'.arg = <<>>
          IN /\ (last'.op = "OpenFile" /\ session = <<>> /\ OpenFile(e))
                  => Opened
             /\ (last'.op = "SendHeartbeat" /\ session = <<>> /\ SendHeartbeat(e))
                  => Opened
             /\ (last'.op = "SendHeartbeat" /\ session # <<>> /\ SendHeartbeat(e))
                  => /\ session' = session
                     /\ activeClientId' = activeClientId
                     /\ lastHeartbeat' = now
                     /\ now' = now
                     /\ last'.arg = <<>>
      ]_vars

\* SendHeartbeat has returned after the TTL has passed, leaving a session
\* that started after it, with a current file and the heartbeat renewed.
C11_Witness ==
    /\ last.op = "SendHeartbeat"
    /\ session # <<>>
    /\ session[1].StartedAt > HeartbeatTTL
    /\ session[1].CurrentFile # <<>>
    /\ session[1].OpenFiles = <<>>
    /\ activeClientId # NoClient
    /\ lastHeartbeat = now

\* C12: an event whose path does not resolve leaves the files of the session
\* as they are and the handler returns normally: OpenFile on an open session
\* changes nothing in it (the current file stays, open, and nothing is
\* archived), and a handler that opens a session leaves it without a current
\* file and with nothing archived.
C12_UnresolvedPathMutatesNothing ==
    [][ \A e \in Events :
          /\ (/\ last'.op = "OpenFile"
              /\ session # <<>>
              /\ e.Path \notin RepoPaths
              /\ OpenFile(e)) =>
                /\ session' = session
                /\ session'[1].CurrentFile # <<>> =>
                      session'[1].CurrentFile[1].ClosedAt = 0
                /\ proc' = "running"
                /\ last'.err = "nil"
                /\ last'.reply = "Successfully updated the current file."
          /\ (/\ last'.op \in { "FocusGained", "OpenFile", "SendHeartbeat" }
              /\ e.Path \notin RepoPaths
              /\ session' # session
              /\ FocusGained(e) \/ OpenFile(e) \/ SendHeartbeat(e)) =>
                /\ session' # <<>>
                /\ session'[1].CurrentFile = <<>>
                /\ session'[1].OpenFiles = <<>>
                /\ proc' = "running"
                /\ last'.err = "nil"
      ]_vars

\* OpenFile has returned on a session whose current file was opened before
\* the call and is still open, with nothing archived.
C12_Witness ==
    /\ last.op = "OpenFile"
    /\ last.reply # ""
    /\ session # <<>>
    /\ session[1].CurrentFile # <<>>
    /\ session[1].CurrentFile[1].OpenedAt < lastHeartbeat
    /\ session[1].CurrentFile[1].ClosedAt = 0
    /\ session[1].OpenFiles = <<>>

\* C16: between operations every File in OpenFiles of the session has
\* ClosedAt > 0, and CurrentFile, if present, has ClosedAt = 0.
C16_ArchivedFilesAreClosed ==
    session # <<>> =>
        /\ \A i \in 1..Len(session[1].OpenFiles) :
              session[1].OpenFiles[i].ClosedAt > 0
        /\ session[1].CurrentFile # <<>> =>
              session[1].CurrentFile[1].ClosedAt = 0

\* C17: every session handed to the Store is the engine's session closed: it
\* ended at a clock reading of the call, DurationMs = EndedAt - StartedAt,
\* its current file is the last archived interval and closed at EndedAt, and
\* Files holds exactly the paths of OpenFiles, each with the File of its
\* path and the sum of the intervals of that path.
C17_SavedSessionIsComplete ==
    [][ last'.arg # <<>> =>
          /\ session # <<>>
          /\ LET a == last'.arg[1]
                 pre == session[1]
                 n == Len(a.OpenFiles)
             IN /\ a.StartedAt = pre.StartedAt
                /\ a.EndedAt >= now
                /\ a.EndedAt <= now'
                /\ a.DurationMs = a.EndedAt - a.StartedAt
                /\ pre.CurrentFile # <<>> =>
                     /\ n = Len(pre.OpenFiles) + 1
                     /\ a.OpenFiles[n].Path = pre.CurrentFile[1].Path
                     /\ a.OpenFiles[n].OpenedAt = pre.CurrentFile[1].OpenedAt
                     /\ a.OpenFiles[n].ClosedAt = a.EndedAt
                /\ \A i \in 1..n :
                     /\ a.OpenFiles[i].Path \in DOMAIN a.Files
                     /\ a.OpenFiles[i].ClosedAt >= a.OpenFiles[i].OpenedAt
                /\ \A p \in DOMAIN a.Files :
                     /\ a.Files[p].Path = p
                     /\ \E i \in 1..n : a.OpenFiles[i].Path = p
                     /\ a.Files[p].DurationMs = SumIntervals(a.OpenFiles, p, 1)
      ]_vars

\* CheckHeartbeat has handed over a session that lasted, whose last archived
\* interval was closed when the session ended.
C17_Witness ==
    /\ last.op = "CheckHeartbeat"
    /\ last.arg # <<>>
    /\ last.arg[1].DurationMs > 0
    /\ last.arg[1].EndedAt = now
    /\ LET a == last.arg[1]
       IN /\ a.OpenFiles[Len(a.OpenFiles)].ClosedAt = a.EndedAt
          /\ a.OpenFiles[Len(a.OpenFiles)].OpenedAt < a.EndedAt

\* C18: the Store is called only by the operation that holds the mutex: by
\* a handler, which runs when the mutex is free and no CheckHeartbeat call is
\* past its Lock, or by the CheckHeartbeat call that holds it.  The session
\* handed over is the engine's, and the engine is left without it: with no
\* session, or with one that was never closed.  No session the engine holds
\* between operations has been closed.
C18_SaveUnderLockAtMostOnce ==
    [][ /\ last'.arg # <<>> =>
             /\ session # <<>>
             /\ last'.arg[1].StartedAt = session[1].StartedAt
             /\ IF last'.op = "CheckHeartbeat"
                THEN mutex = "CheckHeartbeat" /\ hb.pc = "save"
                ELSE mutex = "free" /\ hb.pc # "save"
             /\ last'.op # "FocusGained" => session' = <<>>
        /\ session' # <<>> =>
             /\ session'[1].Files = NoFiles
             /\ session'[1].EndedAt = 0
             /\ session'[1].DurationMs = 0
        /\ mutex' = "CheckHeartbeat" => hb'.pc = "save"
      ]_vars

\* CheckHeartbeat has handed a session to a Store that failed, and the
\* engine is left without it and with the mutex free.
C18_Witness ==
    /\ last.op = "CheckHeartbeat"
    /\ last.log = "save error"
    /\ last.arg # <<>>
    /\ session = <<>>
    /\ mutex = "free"

\* C19: initially, and after every step from a state where it holds other
\* than a handler's for an event with an empty id, a session is present if
\* and only if activeClientId is not empty.  A handler that opens a session
\* sets activeClientId to the id of its event, and OpenFile and SendHeartbeat
\* on an open session leave it as it is.
C19_SessionIffActiveClient ==
    /\ (session # <<>>) = (activeClientId # NoClient)
    /\ [][ (session # <<>>) = (activeClientId # NoClient) =>
             /\ last'.op \notin { "FocusGained", "OpenFile", "SendHeartbeat",
                                  "EndSession" } =>
                   (session' # <<>>) = (activeClientId' # NoClient)
             /\ \A e \in Events :
                  (/\ e.Id # NoClient
                   /\ \/ last'.op = "FocusGained" /\ FocusGained(e)
                      \/ last'.op = "OpenFile" /\ OpenFile(e)
                      \/ last'.op = "SendHeartbeat" /\ SendHeartbeat(e)
                      \/ last'.op = "EndSession" /\ EndSession(e)) =>
                     /\ (session' # <<>>) = (activeClientId' # NoClient)
                     /\ (session' # <<>> /\ session' # session
                           /\ (session = <<>> \/ last'.op = "FocusGained")) =>
                          activeClientId' = e.Id
                     /\ (session # <<>>
                           /\ last'.op \in { "OpenFile", "SendHeartbeat" }) =>
                          activeClientId' = activeClientId
       ]_vars

\* OpenFile has archived a file in the session of a client that is still
\* the active one.
C19_Witness ==
    /\ last.op = "OpenFile"
    /\ session # <<>>
    /\ Len(session[1].OpenFiles) > 0
    /\ activeClientId # NoClient
    /\ session[1].OS = OSOf(activeClientId)

\* The sum of DurationMs over the paths ps of a Files map.
RECURSIVE SumFiles(_, _)
SumFiles(files, ps) ==
    IF ps = {}
    THEN 0
    ELSE LET p == CHOOSE q \in ps : TRUE
         IN files[p].DurationMs + SumFiles(files, ps \ { p })

\* C20: in every session handed to the Store each archived interval is
\* closed when the next one is opened and the last one when the session
\* ended, every interval lies within StartedAt and EndedAt, the DurationMs of
\* Files sum to no more than the session's, and no DurationMs is negative.
C20_IntervalsWithinSession ==
    [][ last'.arg # <<>> =>
          LET a == last'.arg[1]
              n == Len(a.OpenFiles)
          IN /\ \A i \in 1..(n - 1) :
                  a.OpenFiles[i].ClosedAt = a.OpenFiles[i + 1].OpenedAt
             /\ a.OpenFiles[n].ClosedAt = a.EndedAt
             /\ \A i \in 1..n :
                  /\ a.StartedAt <= a.OpenFiles[i].OpenedAt
                  /\ a.OpenFiles[i].OpenedAt <= a.OpenFiles[i].ClosedAt
                  /\ a.OpenFiles[i].ClosedAt <= a.EndedAt
             /\ SumFiles(a.Files, DOMAIN a.Files) <= a.DurationMs
             /\ a.DurationMs >= 0
             /\ \A p \in DOMAIN a.Files : a.Files[p].DurationMs >= 0
      ]_vars

\* The sessions ss in the order o of their indexes.
Permuted(ss, o) == [i \in 1..Len(ss) |-> ss[o[i]]]

\* The set of the elements of a list.
Range(list) == { list[i] : i \in 1..Len(list) }

\* The DurationMs of the sessions from i on that started in [from, to).
RECURSIVE DurationStartedIn(_, _, _, _)
DurationStartedIn(ss, i, from, to) ==
    IF i > Len(ss)
    THEN 0
    ELSE (IF from <= ss[i].StartedAt /\ ss[i].StartedAt < to
          THEN ss[i].DurationMs
          ELSE 0) + DurationStartedIn(ss, i + 1, from, to)

\* The first of the month after the month that starts at m.
NextMonth(m) ==
    LET k == CHOOSE j \in 1..Len(MonthStartDays) : MonthStartDays[j] * DayLength = m
    IN MonthStartDays[k + 1] * DayLength

\* C13: what Aggregate returned has the same set of day aggregates (Date,
\* DateString, TotalTimeMs and Repositories) as Aggregate on every
\* permutation of the sessions, in whatever order it visits the days.
C13_AggregateOrderIndependent ==
    pcReport = "day" =>
        \A o \in Orders(1..Len(sessions)) :
            LET permuted == Permuted(sessions, o)
            IN \A order \in Orders(DOMAIN groupByDay(permuted)) :
                 Range(Aggregate(permuted, order, zone))
                   = Range(aggregatedSessions)

\* Aggregate has returned one aggregate for two sessions of one day that
\* differ in their start, their duration and their files.
C13_Witness ==
    /\ pcReport = "day"
    /\ Len(aggregatedSessions) = 1
    /\ \E i, j \in 1..Len(sessions) :
         /\ i < j
         /\ sessions[i].StartedAt # sessions[j].StartedAt
         /\ sessions[i].DurationMs # sessions[j].DurationMs
         /\ sessions[i].Files # sessions[j].Files

\* C14: the month aggregates of the day aggregates are one for each month
\* in which a session started, and the TotalTimeMs of each is the sum of
\* DurationMs over the sessions that started in that month.
C14_MonthOfDaysIsMonthOfSessions ==
    pcReport = "month" =>
        /\ Range([i \in 1..Len(aggregatedMonths) |-> aggregatedMonths[i].Date])
             = { TruncateMonth(sessions[i].StartedAt) : i \in 1..Len(sessions) }
        /\ \A i, j \in 1..Len(aggregatedMonths) :
             aggregatedMonths[i].Date = aggregatedMonths[j].Date => i = j
        /\ \A i \in 1..Len(aggregatedMonths) :
             LET m == aggregatedMonths[i].Date
             IN aggregatedMonths[i].TotalTimeMs
                  = DurationStartedIn(sessions, 1, m, NextMonth(m))

\* The aggregates of two days of one month were reduced to the aggregate of
\* that month.
C14_Witness ==
    /\ pcReport = "month"
    /\ Len(aggregatedSessions) = 2
    /\ Len(aggregatedMonths) = 1
    /\ aggregatedMonths[1].TotalTimeMs = DayLength + 1

\* C15: Aggregate returns exactly one aggregate of period Day for each UTC
\* day on which a session started and none for any other day, and its
\* TotalTimeMs is the sum of the whole DurationMs of the sessions that
\* started on that day.
C15_OneAggregatePerStartDay ==
    pcReport = "day" =>
        /\ Range([i \in 1..Len(aggregatedSessions) |-> aggregatedSessions[i].Date])
             = { d \in { k * DayLength : k \in 0..MonthStartDays[Len(MonthStartDays)] } :
                   \E i \in 1..Len(sessions) :
                     /\ d <= sessions[i].StartedAt
                     /\ sessions[i].StartedAt < d + DayLength }
        /\ \A i, j \in 1..Len(aggregatedSessions) :
             aggregatedSessions[i].Date = aggregatedSessions[j].Date => i = j
        /\ \A i \in 1..Len(aggregatedSessions) :
             LET d == aggregatedSessions[i].Date
             IN /\ aggregatedSessions[i].Period = "Day"
                /\ aggregatedSessions[i].TotalTimeMs
                     = DurationStartedIn(sessions, 1, d, d + DayLength)

\* Aggregate has returned for sessions of which one started in the last
\* unit of a day and lasted a day, and none started on the next day.
C15_Witness ==
    /\ pcReport = "day"
    /\ Len(sessions) > 1
    /\ \E i \in 1..Len(sessions) :
         /\ sessions[i].StartedAt = DayLength - 1
         /\ sessions[i].DurationMs = DayLength
    /\ \A i \in 1..Len(aggregatedSessions) : aggregatedSessions[i].Date # DayLength
    /\ \E i \in 1..Len(aggregatedSessions) :
         /\ aggregatedSessions[i].Date = 0
         /\ aggregatedSessions[i].TotalTimeMs > DayLength

====
